---- MODULE Spec2Model ----
(***************************************************************************)
(* Push-to-talk voice input controller of code_speak (VoiceInput,          *)
(* TextProcessor, key_to_str in src/src/code_speak/core.py) together with   *)
(* the recognizer wrapper (RealtimeSTTRecorder, recorder.py) and the        *)
(* caller's text callback (handle_type, cli.py).                            *)
(*                                                                          *)
(* Strings are sequences of one-character strings, so that len(), lower(),  *)
(* strip() and endswith() are computed as Python computes them.             *)
(* Every handler (start, stop, _on_key_press) is one atomic action: the     *)
(* hook delivers key events serially and the owner calls start()/stop()     *)
(* between them.  Collaborators (recognizer, pyautogui, on_text) may raise; *)
(* whether they do is an input of the action.                               *)
(***************************************************************************)
EXTENDS Integers, Sequences, FiniteSets, TLC

VARIABLES
    config,      \* self.config.code_speak (read-only snapshot)
    active,      \* self.active
    recording,   \* self.recording
    listener,    \* self.listener is not None
    nListeners,  \* number of pynput listener threads started and not stopped
    hookEver,    \* a listener thread has been created at some time
    recorder,    \* RealtimeSTTRecorder._recorder: "ready" or "released" (None);
                 \* "absent" when self.recorder itself is None
    last_input,  \* self.last_input, most recent last
    inFlight,    \* recognizer starts not yet matched by an end of recording
    netInjected, \* utterances typed by on_text minus utterances retracted since stop()
    lastOp,      \* what the last handler did (calls made, keystrokes emitted)
    arg,         \* the text a classifier function is applied to, or the
                 \* key pressed at capture_key's prompt
    res,         \* its result: << >> before the call, <<name, value>> after
    threads      \* where the hook's callback thread and the thread of the
                 \* owning process stand, statement by statement; indicator:
                 \* indicator characters typed minus indicator backspaces

vars == <<config, active, recording, listener, nListeners, hookEver, recorder,
          last_input, inFlight, netInjected, lastOp, arg, res, threads>>

----------------------------------------------------------------------------
(* Bounds *)

MaxStack == 2       \* longest undo stack explored
MaxListeners == 2   \* most listener threads alive at once
MaxUntyped == 1     \* most utterances per session whose typing fails
MaxTextLen == 3     \* longest text handed to the classifier functions
MaxKeyEvents == 4   \* most key events the hook delivers in one session

----------------------------------------------------------------------------
(* Strings *)

Whitespace == {" "}

LowerChar(c) == CASE c = "D" -> "d"
                  [] c = "H" -> "h"
                  [] c = "A" -> "a"
                  [] OTHER -> c

\* str.lower()
Lower(s) == [i \in 1..Len(s) |-> LowerChar(s[i])]

RECURSIVE LStrip(_)
LStrip(s) == IF s # <<>> /\ Head(s) \in Whitespace THEN LStrip(Tail(s)) ELSE s

RECURSIVE RStrip(_)
RStrip(s) == IF s # <<>> /\ s[Len(s)] \in Whitespace
             THEN RStrip(SubSeq(s, 1, Len(s) - 1)) ELSE s

\* str.strip()
Strip(s) == RStrip(LStrip(s))

\* str.endswith(".")
EndsWithDot(s) == s # <<>> /\ s[Len(s)] = "."

----------------------------------------------------------------------------
(* Inputs *)

\* recognizer.text() results: no speech, plain text, text between blanks,
\* a delete keyword as the recognizer writes it
Transcripts == { <<>>, <<"h", "i">>, <<" ", "a", " ">>, <<" ", "D", ".">> }

KW_LIST == << <<"d">>, <<"D", "e", "l">> >>

\* characters of the texts handed to the classifier functions: the letters
\* of the keywords in both cases, blank, period, another punctuation mark
Chars == {"d", "D", "e", "l", " ", ".", "!"}

\* every text of up to MaxTextLen characters
Texts == UNION { [1..n -> Chars] : n \in 0..MaxTextLen }

\* config.code_speak.delete_keywords: a list of keywords, or a boolean
DK_FALSE == [isList |-> FALSE, flag |-> FALSE, list |-> << >>]
DK_LIST  == [isList |-> TRUE, flag |-> FALSE, list |-> KW_LIST]
DK_EMPTY == [isList |-> TRUE, flag |-> FALSE, list |-> << >>]

\* pynput key objects delivered to the callback
K_F9    == [kind |-> "Key", name |-> "f9", char |-> "", vk |-> 0]
K_ESC   == [kind |-> "Key", name |-> "esc", char |-> "", vk |-> 0]
K_A     == [kind |-> "KeyCode", name |-> "", char |-> "A", vk |-> 65]
K_VK    == [kind |-> "KeyCode", name |-> "", char |-> "", vk |-> 269025062]
K_NONE  == [kind |-> "None", name |-> "", char |-> "", vk |-> 0]

\* the key that capture_key takes for "keep the current value"
K_ENTER == [kind |-> "Key", name |-> "enter", char |-> "", vk |-> 0]

\* every shape of key object key_to_str distinguishes
KeyObjects == {K_F9, K_ESC, K_A, K_VK, K_NONE}

\* keys pressed during a session: PTT, escape, another key, no key
Keys == {K_F9, K_ESC, K_A, K_NONE}

\* recording_indicator values (an empty one is rejected by validate_config)
Indicators == { <<";">>, <<";", ";">> }

Configs == [ push_to_talk_key    : {"f9"},
             escape_key          : {"esc", "f9"},
             recording_indicator : Indicators,
             delete_keywords     : {DK_FALSE, DK_LIST},
             strip               : BOOLEAN,
             fast_delete         : BOOLEAN ]

\* outcome of one pyautogui request: all keys emitted, or FailSafeException
\* (or a display error) before the first key / after the first key
KbOutcomes == {"ok", "fail0", "fail1"}

\* outcome of the caller's on_text: text typed; typewrite failed and
\* handle_type swallowed the error; the callback itself raised
OnTextOutcomes == {"typed", "type_failed", "raised"}

----------------------------------------------------------------------------
(* Pure functions of core.py *)

\* key_to_str returning the character as typed, without ".lower()"
key_to_str_as_typed(key) ==
    IF key.kind = "None" THEN ""
    ELSE IF key.kind = "KeyCode"
         THEN IF key.char # "" THEN key.char
                               ELSE "vk_" \o ToString(key.vk)
         ELSE key.name

\* key_to_str
key_to_str(key) ==
    IF key.kind = "None" THEN ""
    ELSE IF key.kind = "KeyCode"
         THEN IF key.char # "" THEN LowerChar(key.char)
                               ELSE "vk_" \o ToString(key.vk)
         ELSE key.name

\* process_text removing leading whitespace only
process_text_lstrip(text) ==
    IF text = << >> THEN text
    ELSE IF config.strip THEN LStrip(text) ELSE text

\* TextProcessor.process_text
process_text(text) ==
    IF text = << >> THEN text
    ELSE IF config.strip THEN Strip(text) ELSE text

\* not delete_keywords
DkFalsy(dk) == IF dk.isList THEN dk.list = << >> ELSE ~dk.flag

\* a boolean value read as "use the default keywords"
is_delete_command_defaults(text) ==
    LET dk == config.delete_keywords
        n0 == Strip(Lower(text))
        normalized == IF EndsWithDot(n0) THEN SubSeq(n0, 1, Len(n0) - 1) ELSE n0
        keywords == IF dk.isList THEN dk.list ELSE KW_LIST
    IN  \E i \in 1..Len(keywords) : Lower(keywords[i]) = normalized

\* startswith instead of list membership
is_delete_command_prefix(text) ==
    LET dk == config.delete_keywords
        n0 == Strip(Lower(text))
        normalized == IF EndsWithDot(n0) THEN SubSeq(n0, 1, Len(n0) - 1) ELSE n0
    IN  IF DkFalsy(dk) THEN FALSE
        ELSE \E i \in 1..Len(dk.list) :
                LET k == Lower(dk.list[i]) IN
                /\ Len(k) <= Len(normalized)
                /\ SubSeq(normalized, 1, Len(k)) = k

\* the text compared as given, without ".strip()"
is_delete_command_as_given(text) ==
    LET dk == config.delete_keywords
        n0 == Lower(text)
        normalized == IF EndsWithDot(n0) THEN SubSeq(n0, 1, Len(n0) - 1) ELSE n0
    IN  IF DkFalsy(dk) THEN FALSE
        ELSE \E i \in 1..Len(dk.list) : Lower(dk.list[i]) = normalized

\* TextProcessor.is_delete_command
is_delete_command(text) ==
    LET dk == config.delete_keywords
        n0 == Strip(Lower(text))
        normalized == IF EndsWithDot(n0) THEN SubSeq(n0, 1, Len(n0) - 1) ELSE n0
    IN  IF DkFalsy(dk) THEN FALSE
        ELSE \E i \in 1..Len(dk.list) : Lower(dk.list[i]) = normalized

----------------------------------------------------------------------------
(* Keystroke injection (pyautogui) *)

Min(a, b) == IF a < b THEN a ELSE b
Max(a, b) == IF a > b THEN a ELSE b

\* keys that reach the target out of n requested, for one request outcome
Emitted(n, outcome) ==
    CASE outcome = "ok"    -> n
      [] outcome = "fail0" -> 0
      [] outcome = "fail1" -> Max(0, Min(1, n - 1))

\* the batch strategy pressing one backspace instead of the whole run
handle_delete_by_single(fast_delete, chars_to_delete, outcome) ==
    IF chars_to_delete = 0
    THEN [emitted |-> 0, presses |-> 0, raised |-> FALSE]
    ELSE LET n == IF fast_delete THEN 1 ELSE chars_to_delete
             e == Emitted(n, outcome)
             failed == outcome # "ok"
         IN  [emitted |-> e,
              presses |-> IF fast_delete THEN 1
                          ELSE IF failed THEN e + 1 ELSE e,
              raised  |-> failed]

\* VoiceInput._handle_delete under one strategy: backspaces emitted, press
\* requests made, whether pyautogui raised
handle_delete_by(fast_delete, chars_to_delete, outcome) ==
    IF chars_to_delete = 0
    THEN [emitted |-> 0, presses |-> 0, raised |-> FALSE]
    ELSE LET e == Emitted(chars_to_delete, outcome)
             failed == outcome # "ok"
         IN  IF fast_delete
             THEN [emitted |-> e, presses |-> 1, raised |-> failed]
             ELSE [emitted |-> e,
                   presses |-> IF failed THEN e + 1 ELSE e,
                   raised  |-> failed]

\* VoiceInput._handle_delete with the configured strategy
handle_delete(chars_to_delete, outcome) ==
    handle_delete_by(config.fast_delete, chars_to_delete, outcome)

\* one backspace whatever the indicator (as claude_speak/core.py does)
handle_delete_indicator_one(outcome) ==
    handle_delete(1, outcome)

\* VoiceInput._handle_delete_indicator
handle_delete_indicator(outcome) ==
    handle_delete(Len(config.recording_indicator), outcome)

\* pyautogui.typewrite(recording_indicator, interval) in _start_recording
type_indicator(outcome) ==
    [emitted |-> Emitted(Len(config.recording_indicator), outcome),
     raised  |-> outcome # "ok"]

----------------------------------------------------------------------------
(* Handlers.  Each returns the new values of the fields it may write and   *)
(* the calls it made on its collaborators.                                  *)

\* nothing done yet: the fields as they are, no call made
NoEffect ==
    [recording   |-> recording,
     last_input  |-> last_input,
     inFlight    |-> inFlight,
     netInjected |-> netInjected,
     typedInd    |-> 0,        \* indicator characters typed
     bsInd       |-> 0,        \* backspaces emitted for the indicator
     bsUtt       |-> 0,        \* backspaces emitted to retract an utterance
     presses     |-> 0,        \* pyautogui.press requests
     rec         |-> << >>,    \* recognizer methods called, in order
     recErr      |-> "none",   \* recognizer method that raised
     classified  |-> FALSE,    \* is_delete_command was evaluated
     retract     |-> FALSE,    \* _handle_delete_last was called
     onText      |-> << >>,    \* arguments on_text was called with
     injected    |-> FALSE,    \* on_text typed the utterance
     typedText   |-> 0,        \* characters on_text typed
     kbErr       |-> FALSE,    \* a pyautogui request raised
     shutErr     |-> FALSE,    \* the recognizer handle's shutdown() raised
     raised      |-> FALSE]    \* an exception left the handler

\* RealtimeSTTRecorder.start/stop/text raise when _recorder is None
RecorderCallFails(method, recFail) ==
    recorder = "released" \/ recFail = method

\* the except branch without the reset of the flag
RecordingKeptAfterStartError == TRUE

\* line 184: "self.recording = False" in the except branch
RecordingAfterStartError == FALSE

\* VoiceInput._start_recording
\*   inp.kbInd : outcome of typing the indicator
\*   inp.recFail : recognizer method that raises ("none" if none)
\*   inp.kbDel : outcome of the rollback backspaces
start_recording(inp) ==
    LET ty == type_indicator(inp.kbInd)
        rb == handle_delete_indicator(inp.kbDel)
    IN  IF recorder = "absent" THEN NoEffect
        ELSE IF ty.raised
        THEN [NoEffect EXCEPT !.recording = TRUE, !.typedInd = ty.emitted,
                              !.kbErr = TRUE, !.raised = TRUE]
        ELSE IF ~RecorderCallFails("start", inp.recFail)
        THEN [NoEffect EXCEPT !.recording = TRUE, !.typedInd = ty.emitted,
                              !.rec = <<"start">>,
                              !.inFlight = inFlight + 1]
        ELSE [NoEffect EXCEPT !.recording = RecordingAfterStartError,
                              !.typedInd = ty.emitted,
                              !.rec = <<"start">>, !.recErr = "start",
                              !.bsInd = rb.emitted, !.presses = rb.presses,
                              !.kbErr = rb.raised, !.raised = rb.raised]

\* retraction of an empty text when the undo stack is empty
handle_delete_last_default_empty(r, outcome) ==
    LET n == Len(r.last_input)
        last_text == IF n = 0 THEN << >> ELSE r.last_input[n]
        d == handle_delete(Len(last_text) + 1, outcome)
    IN  [r EXCEPT !.last_input = SubSeq(r.last_input, 1, n - 1),
                  !.netInjected = IF n = 0 THEN r.netInjected
                                  ELSE r.netInjected - 1,
                  !.bsUtt = d.emitted,
                  !.presses = r.presses + d.presses,
                  !.kbErr = d.raised]

\* retraction of the oldest entry (pop(0)) instead of the newest
handle_delete_last_fifo(r, outcome) ==
    IF r.last_input = << >> THEN r
    ELSE LET last_text == Head(r.last_input)
             d == handle_delete(Len(last_text) + 1, outcome)
         IN  [r EXCEPT !.last_input = Tail(r.last_input),
                       !.netInjected = r.netInjected - 1,
                       !.bsUtt = d.emitted,
                       !.presses = r.presses + d.presses,
                       !.kbErr = d.raised]

\* VoiceInput._handle_delete_last, applied to result r
handle_delete_last(r, outcome) ==
    IF r.last_input = << >> THEN r
    ELSE LET last_text == r.last_input[Len(r.last_input)]
             d == handle_delete(Len(last_text) + 1, outcome)
         IN  [r EXCEPT !.last_input = SubSeq(r.last_input, 1, Len(r.last_input) - 1),
                       !.netInjected = r.netInjected - 1,
                       !.bsUtt = d.emitted,
                       !.presses = r.presses + d.presses,
                       !.kbErr = d.raised]

\* _stop_recording without the early return for escape
SkipTranscriptNever(is_esc) == FALSE

\* line 204: "if is_esc: return"
SkipTranscript(is_esc) == is_esc

\* a recorder.stop() error swallowed on its own, the transcript still used
StopErrorSwallowed == FALSE

\* lines 201-202, 221: recorder.stop() is inside the try, its error ends
\* the handler
StopErrorEnds == TRUE

\* the classification dropped: every transcript is stored and sent
IsDeleteBranchNever(processed_text) == FALSE

\* line 213: "if self.text_processor.is_delete_command(processed_text)"
IsDeleteBranch(processed_text) == is_delete_command(processed_text)

\* the normalized text stored instead of the raw one
PushedTextProcessed(raw_text, processed_text) == processed_text

\* line 217: "self.last_input.append(raw_text)"
PushedText(raw_text, processed_text) == raw_text

\* the normalized text sent instead of the raw one
OnTextArgProcessed(raw_text, processed_text) == processed_text

\* line 219: "self.on_text(raw_text)"
OnTextArg(raw_text, processed_text) == raw_text

\* typing without the trailing blank
handle_type_bare(text, outcome) ==
    IF outcome = "typed" THEN Len(text) ELSE 0

\* run_with_bin.handle_type: characters typed by typewrite(text + " ")
handle_type(text, outcome) ==
    IF outcome = "typed" THEN Len(text) + 1 ELSE 0

\* lines 206-219 of _stop_recording: the transcript classified, then
\* retracted or stored and sent
process_transcript(r2, inp) ==
    LET raw_text == inp.text
        processed_text == process_text(raw_text)
    IN  IF raw_text = << >> THEN r2
        ELSE IF IsDeleteBranch(processed_text)
        THEN handle_delete_last([r2 EXCEPT !.classified = TRUE,
                                           !.retract = TRUE], inp.kbDel)
        ELSE LET sent == OnTextArg(raw_text, processed_text) IN
             [r2 EXCEPT !.classified = TRUE,
                        !.last_input = Append(r2.last_input,
                                              PushedText(raw_text, processed_text)),
                        !.onText = <<sent>>,
                        !.injected = (inp.onText = "typed"),
                        !.typedText = handle_type(sent, inp.onText),
                        !.netInjected = IF inp.onText = "typed"
                                        THEN r2.netInjected + 1
                                        ELSE r2.netInjected]

\* VoiceInput._stop_recording, run on the fields in r0
\*   inp.kbInd : outcome of the indicator backspaces
\*   inp.text : what recognizer.text() returns
\*   inp.kbDel : outcome of the retraction backspaces
\*   inp.onText : outcome of on_text
stop_recording(r0, is_esc, inp) ==
    IF ~r0.recording \/ recorder = "absent" THEN r0
    ELSE
    LET d  == handle_delete_indicator(inp.kbInd)
        r1 == [r0 EXCEPT !.recording = FALSE,
                         !.inFlight = Max(0, r0.inFlight - 1),
                         !.bsInd = d.emitted, !.presses = d.presses,
                         !.kbErr = d.raised, !.raised = d.raised]
        stopFailed == RecorderCallFails("stop", inp.recFail)
        rs == [r1 EXCEPT !.rec = <<"stop">>,
                         !.recErr = IF stopFailed THEN "stop" ELSE "none"]
    IN  IF d.raised THEN r1
        ELSE IF stopFailed /\ StopErrorEnds THEN rs
        ELSE IF SkipTranscript(is_esc) THEN rs
        ELSE IF RecorderCallFails("text", inp.recFail)
        THEN [rs EXCEPT !.rec = <<"stop", "text">>, !.recErr = "text"]
        ELSE process_transcript([rs EXCEPT !.rec = <<"stop", "text">>], inp)

\* _on_key_press without the "if self.recording" test under the PTT key
DispatchAlwaysStarts(key) ==
    IF ~active \/ key.kind = "None" THEN "ignored"
    ELSE IF recording /\ config.escape_key = key_to_str(key) THEN "cancel"
    ELSE IF key_to_str(key) = config.push_to_talk_key THEN "toggle_start"
         ELSE "ignored"

\* _on_key_press without the comparison with push_to_talk_key
DispatchAnyKeyToggles(key) ==
    IF ~active \/ key.kind = "None" THEN "ignored"
    ELSE IF recording /\ config.escape_key = key_to_str(key) THEN "cancel"
    ELSE IF recording THEN "toggle_stop" ELSE "toggle_start"

\* _on_key_press without the test of self.active
DispatchWhileInactive(key) ==
    IF key.kind = "None" THEN "ignored"
    ELSE IF recording /\ config.escape_key = key_to_str(key) THEN "cancel"
    ELSE IF key_to_str(key) = config.push_to_talk_key
         THEN IF recording THEN "toggle_stop" ELSE "toggle_start"
         ELSE "ignored"

\* VoiceInput._on_key_press: which branch a key event takes
Dispatch(key) ==
    IF ~active \/ key.kind = "None" THEN "ignored"
    ELSE IF recording /\ config.escape_key = key_to_str(key) THEN "cancel"
    ELSE IF key_to_str(key) = config.push_to_talk_key
         THEN IF recording THEN "toggle_stop" ELSE "toggle_start"
         ELSE "ignored"

RecFailures == {"none", "start", "stop", "text"}

Inputs == [kbInd : KbOutcomes, recFail : RecFailures, text : Transcripts,
           kbDel : KbOutcomes, onText : OnTextOutcomes]

\* inputs a handler does not read are fixed, so that one behaviour of the
\* code is one transition
NoInput == [kbInd |-> "ok", recFail |-> "none", text |-> << >>,
            kbDel |-> "ok", onText |-> "typed"]

\* what _start_recording reads: the rollback outcome only after a failed start
StartInputs ==
    { i \in Inputs :
        /\ i.recFail \in {"none", "start"}
        /\ i.text = << >> /\ i.onText = "typed"
        /\ (i.kbInd # "ok" => i.recFail = "none")
        /\ (i.recFail = "none" => i.kbDel = "ok") }

\* what _stop_recording() reads: the recognizer holds a transcript also
\* when stop() raises, text() returns none when it raises; the later
\* outcomes matter only where a transcript can use them
StopInputs ==
    { i \in Inputs :
        /\ i.recFail \in {"none", "stop", "text"}
        /\ (i.kbInd # "ok" => i.recFail = "none")
        /\ (i.kbInd # "ok" \/ i.recFail = "text" => i.text = << >>)
        /\ (i.text = << >> \/ i.recFail # "none" =>
              i.kbDel = "ok" /\ i.onText = "typed")
        /\ (i.kbDel = "ok" \/ i.onText = "typed") }

\* what _stop_recording(is_esc=True) reads; the recognizer holds a
\* transcript whatever the handler does with it
CancelInputs ==
    { i \in Inputs :
        /\ i.recFail \in {"none", "stop"}
        /\ i.kbDel = "ok" /\ i.onText = "typed"
        /\ (i.kbInd # "ok" => i.recFail = "none") }

\* record of the handler that just ran: the entry point, the key string it
\* computed, the branch of _on_key_press, the handler's result, whether the
\* recognizer handle's shutdown() was invoked, the transcript the recognizer
\* held for the recording the handler ended
Op(name, key_str, branch, r, shut, heard) ==
    [op |-> name, key |-> key_str, branch |-> branch, eff |-> r,
     shutdown |-> shut, heard |-> heard]

----------------------------------------------------------------------------
(* State machine *)

\* the fields VoiceInput.__init__ sets; handle is "ready" when
\* _init_recorder constructed the recognizer and "absent" when it raised
\* (self.recorder is still None)
\* a thread that is running no method of the session
IdleFrame == [pc |-> "idle", key |-> "", is_esc |-> FALSE, raw |-> << >>,
              log |-> << >>]

\* no thread is inside the session, none has been yet
NoThreads == [cb |-> IdleFrame, own |-> IdleFrame, events |-> 0,
              indicator |-> 0,
              last |-> [by |-> "none", step |-> "none"]]

ConstructedWith(handle) ==
    /\ threads = NoThreads
    /\ active = FALSE
    /\ recording = FALSE
    /\ listener = FALSE
    /\ nListeners = 0
    /\ hookEver = FALSE
    /\ recorder = handle
    /\ last_input = << >>
    /\ inFlight = 0
    /\ netInjected = 0
    /\ lastOp = [op |-> "init", key |-> "", branch |-> "none",
                 eff |-> [recording |-> FALSE, last_input |-> << >>,
                          inFlight |-> 0, netInjected |-> 0, typedInd |-> 0,
                          bsInd |-> 0, bsUtt |-> 0, presses |-> 0,
                          rec |-> << >>, recErr |-> "none",
                          classified |-> FALSE, retract |-> FALSE,
                          onText |-> << >>,
                          injected |-> FALSE, typedText |-> 0,
                          kbErr |-> FALSE, shutErr |-> FALSE,
                          raised |-> FALSE],
                 shutdown |-> FALSE, heard |-> << >>]

Constructed == ConstructedWith("ready")

\* _init_recorder without its "raise": the constructor returns an instance
\* that has no recognizer
InitErrorSwallowed == FALSE

\* line 121: "raise" in _init_recorder, so a failed construction leaves no
\* instance to the caller (run_with_bin reports it and goes on without)
InitErrorPropagates == TRUE

\* the caller holds an instance it can call start() on
InstanceReturned == recorder # "absent" \/ ~InitErrorPropagates

\* the session as constructed, or its construction failed, under any
\* configuration
Init ==
    /\ config \in Configs
    /\ ConstructedWith("ready") \/ ConstructedWith("absent")
    /\ arg = << >> /\ res = << >>

\* the fields a handler result carries
Commit(r) ==
    /\ recording' = r.recording
    /\ last_input' = r.last_input
    /\ inFlight' = r.inFlight
    /\ netInjected' = r.netInjected

\* VoiceInput.start
Start ==
    /\ InstanceReturned
    /\ nListeners < MaxListeners
    /\ active' = TRUE
    /\ listener' = TRUE
    /\ nListeners' = nListeners + 1
    /\ hookEver' = TRUE
    /\ lastOp' = Op("start", "", "none", NoEffect, FALSE, << >>)
    /\ UNCHANGED <<arg, res, threads>>
    /\ UNCHANGED <<config, recording, recorder, last_input, inFlight, netInjected>>

\* stop() without the forced end of the recording
StopLeavesRecording(r0, inp) == r0

\* lines 155-157 of stop(): "if self.recording: self._stop_recording()"
StopEndsRecording(r0, inp) == stop_recording(r0, FALSE, inp)

\* shutdown() of the wrapper calling the handle every time
HandleShutdownAlways(handle) == TRUE

\* RealtimeSTTRecorder.shutdown: "if self._recorder is not None"
HandleShutdownInvoked(handle) == handle = "ready"

\* RealtimeSTTRecorder.shutdown: "except Exception: pass", so an error of
\* the handle's shutdown() does not leave the wrapper
ShutdownErrorPropagates(shutFail) == FALSE

\* VoiceInput.stop; shutFail: the handle's shutdown() raises, explored for
\* the runs of stop() in which nothing else fails and no transcript is pending
Stop ==
    \E inp \in (IF recording THEN StopInputs ELSE {NoInput}) :
    \E shutFail \in (IF recorder = "ready" /\ inp = NoInput
                     THEN BOOLEAN ELSE {FALSE}) :
      /\ LET r0 == [NoEffect EXCEPT !.last_input = << >>, !.netInjected = 0]
             r1 == StopEndsRecording(r0, inp)
             \* an exception from _stop_recording leaves stop() before shutdown
             shut == ~r1.raised /\ HandleShutdownInvoked(recorder)
             r  == IF shut /\ shutFail
                   THEN [r1 EXCEPT !.shutErr = TRUE,
                                   !.raised = ShutdownErrorPropagates(shutFail)]
                   ELSE r1
         IN  /\ shutFail => shut
             /\ active' = FALSE
             /\ listener' = FALSE
             /\ nListeners' = IF listener THEN nListeners - 1 ELSE nListeners
             /\ Commit(r)
             /\ recorder' = IF r1.raised \/ recorder = "absent"
                            THEN recorder ELSE "released"
             /\ lastOp' = Op("stop", "", "none", r, shut, inp.text)
             /\ UNCHANGED <<arg, res, threads>>
      /\ UNCHANGED <<config, hookEver>>

\* _on_key_press returning without an action
KeyIgnored ==
    \E key \in Keys :
      /\ hookEver
      /\ Dispatch(key) = "ignored"
      /\ lastOp' = Op("key", key_to_str(key), "ignored", NoEffect, FALSE, << >>)
      /\ UNCHANGED <<arg, res, threads>>
      /\ UNCHANGED <<config, active, recording, listener, nListeners, hookEver,
                     recorder, last_input, inFlight, netInjected>>

\* _on_key_press -> _start_recording
ToggleStart ==
    \E key \in Keys :
      /\ hookEver
      /\ Dispatch(key) = "toggle_start"
      /\ inFlight < 2
      /\ \E inp \in StartInputs :
           /\ LET r == start_recording(inp)
              IN  /\ Commit(r)
                  /\ lastOp' = Op("key", key_to_str(key), "toggle_start", r, FALSE, << >>)
                  /\ UNCHANGED <<arg, res, threads>>
      /\ UNCHANGED <<config, active, listener, nListeners, hookEver, recorder>>

\* _on_key_press -> _stop_recording()
ToggleStop ==
    \E key \in Keys :
      /\ hookEver
      /\ Dispatch(key) = "toggle_stop"
      /\ \E inp \in StopInputs :
           /\ LET r == stop_recording(NoEffect, FALSE, inp)
              IN  /\ Len(r.last_input) <= MaxStack
                  /\ Len(r.last_input) - r.netInjected <= MaxUntyped
                  /\ Commit(r)
                  /\ lastOp' = Op("key", key_to_str(key), "toggle_stop", r, FALSE, inp.text)
                  /\ UNCHANGED <<arg, res, threads>>
      /\ UNCHANGED <<config, active, listener, nListeners, hookEver, recorder>>

\* _on_key_press -> _stop_recording(is_esc=True)
Cancel ==
    \E key \in Keys :
      /\ hookEver
      /\ Dispatch(key) = "cancel"
      /\ \E inp \in CancelInputs :
           /\ LET r == stop_recording(NoEffect, TRUE, inp)
              IN  /\ Commit(r)
                  /\ lastOp' = Op("key", key_to_str(key), "cancel", r, FALSE, inp.text)
                  /\ UNCHANGED <<arg, res, threads>>
      /\ UNCHANGED <<config, active, listener, nListeners, hookEver, recorder>>

Next == Start \/ Stop \/ KeyIgnored \/ ToggleStart \/ ToggleStop \/ Cancel

Spec == Init /\ [][Next]_vars

-----------------------------------------------------------------------------
(* The text classifier on its own: TextProcessor.is_delete_command applied *)
(* to every text of Texts under every configuration                        *)

\* the session's configurations, and the same with an empty keyword list
TextConfigs ==
    Configs \cup { [c EXCEPT !.delete_keywords = DK_EMPTY] : c \in Configs }

InitText ==
    /\ config \in TextConfigs
    /\ Constructed
    /\ arg \in Texts /\ res = << >>

\* one call of TextProcessor.is_delete_command(arg)
Classify ==
    /\ res = << >>
    /\ res' = <<"is_delete_command", is_delete_command(arg)>>
    /\ UNCHANGED <<config, active, recording, listener, nListeners, hookEver,
                   recorder, last_input, inFlight, netInjected, lastOp, arg,
                   threads>>

\* one call of TextProcessor.process_text(arg)
Normalize ==
    /\ res = << >>
    /\ res' = <<"process_text", process_text(arg)>>
    /\ UNCHANGED <<config, active, recording, listener, nListeners, hookEver,
                   recorder, last_input, inFlight, netInjected, lastOp, arg,
                   threads>>

\* undo stacks a transcript can meet: empty, or one earlier utterance
TextStacks == { << >>, << <<"h", "i">> >> }

\* lines 206-219 of _stop_recording run on the transcript arg by a session
\* whose undo stack is stack: the value of the test of line 213 and what
\* the branch taken did
TranscriptOutcome(stack) ==
    [delete |-> is_delete_command(process_text(arg)),
     eff    |-> process_transcript([NoEffect EXCEPT !.last_input = stack,
                                                    !.netInjected = Len(stack)],
                                   [NoInput EXCEPT !.text = arg])]

\* the transcript arg handled by a session under the configuration; the
\* session to compare it with differs in the strip flag only
TranscribeFirst ==
    /\ res = << >>
    /\ \E stack \in TextStacks :
          res' = <<"transcript", stack, TranscriptOutcome(stack)>>
    /\ config' = [config EXCEPT !.strip = ~config.strip]
    /\ UNCHANGED <<active, recording, listener, nListeners, hookEver,
                   recorder, last_input, inFlight, netInjected, lastOp, arg,
                   threads>>

\* the same transcript handled by the session with the flag inverted
TranscribeSecond ==
    /\ Len(res) = 3 /\ res[1] = "transcript"
    /\ res' = Append(res, TranscriptOutcome(res[2]))
    /\ UNCHANGED <<config, active, recording, listener, nListeners, hookEver,
                   recorder, last_input, inFlight, netInjected, lastOp, arg,
                   threads>>

NextText == Classify \/ Normalize \/ TranscribeFirst \/ TranscribeSecond

SpecText == InitText /\ [][NextText]_vars

----------------------------------------------------------------------------
(* Setup and live use of a key: capture_key stores the id of the key arg  *)
(* in the configuration, then a session runs under that configuration     *)

\* keys pressed at the prompt of capture_key
CaptureKeys == KeyObjects \cup {K_ENTER}

\* capture_key returning None
NoKey == "<None>"

\* key_to_str of the config module, which capture_key calls: the canonical
\* lowercase id (printable character, symbolic name, numeric fallback)
config_key_to_str(key) ==
    CASE key.kind = "KeyCode" /\ key.char # "" -> LowerChar(key.char)
      [] key.kind = "KeyCode" /\ key.char = "" -> "vk_" \o ToString(key.vk)
      [] key.kind = "Key" -> key.name
      [] OTHER -> ""

\* capture_key
capture_key(key) ==
    LET captured_key == config_key_to_str(key)
    IN  IF captured_key # "enter" THEN captured_key ELSE NoKey

\* the option setup writes after capture_key: "if captured_key:"
setup_key(option, captured_key) ==
    IF captured_key \notin {NoKey, ""}
    THEN [config EXCEPT ![option] = captured_key]
    ELSE config

\* transcripts of the session that follows setup
KeyTranscripts == { << >>, <<"h", "i">> }

InitKey ==
    /\ config \in Configs
    /\ Constructed
    /\ arg \in CaptureKeys /\ res = << >>

\* setup: capture the key arg for the PTT key or for the escape key
CaptureKey ==
    /\ res = << >>
    /\ \E option \in {"push_to_talk_key", "escape_key"} :
         /\ config' = setup_key(option, capture_key(arg))
         /\ res' = <<option, capture_key(arg)>>
    /\ UNCHANGED <<active, recording, listener, nListeners, hookEver,
                   recorder, last_input, inFlight, netInjected, lastOp, arg,
                   threads>>

\* VoiceInput.start under the configuration setup left
StartAfterSetup == res # << >> /\ Start

\* _on_key_press for the captured key or a key of the initial configuration,
\* pyautogui and the recognizer raising nothing
PressKey ==
    \E key \in {arg, K_F9, K_ESC}, text \in KeyTranscripts :
      /\ hookEver
      /\ LET inp == [NoInput EXCEPT !.text = text]
             b == Dispatch(key)
             r == IF b = "toggle_start" THEN start_recording(inp)
                  ELSE IF b = "toggle_stop"
                       THEN stop_recording(NoEffect, FALSE, inp)
                  ELSE IF b = "cancel"
                       THEN stop_recording(NoEffect, TRUE, inp)
                  ELSE NoEffect
         IN  /\ b \in {"toggle_start", "ignored"} => text = << >>
             /\ Len(r.last_input) <= MaxStack
             /\ Commit(r)
             /\ lastOp' = Op("key", key_to_str(key), b, r, FALSE, text)
      /\ UNCHANGED <<config, active, listener, nListeners, hookEver, recorder,
                     arg, res, threads>>

NextKey == CaptureKey \/ StartAfterSetup \/ PressKey

SpecKey == InitKey /\ [][NextKey]_vars

----------------------------------------------------------------------------
(* The session statement by statement: the hook's callback thread runs    *)
(* _on_key_press for one key event at a time while the thread of the      *)
(* owning process runs stop().  pyautogui raises nothing here; the        *)
(* recognizer raises exactly when its handle has been released.           *)

Threads == {"cb", "own"}

ConcConfigs ==
    { c \in Configs : c.recording_indicator = <<";">> /\ c.fast_delete }

\* keys the hook delivers: the PTT key and the escape key
ConcKeys == {K_F9, K_ESC}

\* what recognizer.text() returns: nothing, an utterance, a delete-command
ConcTranscripts == { << >>, <<"h", "i">>, <<" ", "D", ".">> }

\* _stop_recording with the indicator removed after the transcript is fetched
StopStepsIndicatorLate ==
    <<"stop_guard", "clear_recording", "rec_stop", "rec_text",
      "bs_indicator", "classify", "retract_or_push", "on_text">>

\* the statements of _start_recording (lines 169-180), in program order
StartSteps == <<"set_recording", "type_indicator", "rec_start">>

\* its "except" branch (lines 183-186)
StartFailedSteps == <<"unset_recording", "untype_indicator">>

\* the statements of _stop_recording (lines 190-219), in program order
StopSteps ==
    <<"stop_guard", "clear_recording", "bs_indicator", "rec_stop", "rec_text",
      "classify", "retract_or_push", "on_text">>

\* the statements of stop() (lines 145-161), in program order
StopMethodSteps ==
    <<"clear_active", "clear_stack", "stop_listener", "check_recording",
      "shutdown">>

\* the statement after s in steps, "end" after the last one
After(steps, s) ==
    LET i == CHOOSE n \in 1..Len(steps) : steps[n] = s
    IN  IF i < Len(steps) THEN steps[i + 1] ELSE "end"

\* where thread t goes when the handler it runs returns: the callback
\* thread is free again, stop() goes on after its call of _stop_recording
Return(t) ==
    IF t = "cb" THEN "idle" ELSE After(StopMethodSteps, "check_recording")

\* where thread t goes after statement s of a handler
Resume(t, steps, s) ==
    IF After(steps, s) = "end" THEN Return(t) ELSE After(steps, s)

\* thread t ran the statement called name and stands at pc2
Advance(t, name, pc2) ==
    [threads EXCEPT ![t].pc = pc2,
                    ![t].log = Append(@, name),
                    !.last = [by |-> t, step |-> name]]

\* what no statement of a handler touches
ConcFixed == <<config, hookEver, inFlight, netInjected, lastOp, arg, res>>

InitConc ==
    /\ config \in ConcConfigs
    /\ Constructed
    /\ arg = << >> /\ res = << >>

\* the owning process calls start(), once
StartOnce ==
    /\ ~hookEver /\ threads.own.pc = "idle"
    /\ Start

\* the hook delivers a key-down event: events are delivered one at a time,
\* and none after listener.stop()
KeyEvent ==
    /\ listener /\ threads.cb.pc = "idle"
    /\ threads.events < MaxKeyEvents
    /\ \E key \in ConcKeys :
         threads' = [threads EXCEPT
                        !.cb = [IdleFrame EXCEPT !.pc = "check_active",
                                                 !.key = key_to_str(key)],
                        !.events = @ + 1,
                        !.last = [by |-> "hook", step |-> "key_event"]]
    /\ UNCHANGED <<active, recording, listener, nListeners, recorder, last_input>>
    /\ UNCHANGED ConcFixed

\* _on_key_press, line 256: "if not self.active or not key: return"
StepCheckActive ==
    /\ threads.cb.pc = "check_active"
    /\ threads' = Advance("cb", "check_active",
                          IF ~active THEN "idle" ELSE "check_escape")
    /\ UNCHANGED <<active, recording, listener, nListeners, recorder, last_input>>
    /\ UNCHANGED ConcFixed

\* line 261: "if self.recording and escape_key == key_str"
StepCheckEscape ==
    /\ threads.cb.pc = "check_escape"
    /\ threads' =
         IF recording /\ config.escape_key = threads.cb.key
         THEN [Advance("cb", "check_escape", StopSteps[1])
                 EXCEPT !.cb.is_esc = TRUE]
         ELSE Advance("cb", "check_escape", "check_ptt")
    /\ UNCHANGED <<active, recording, listener, nListeners, recorder, last_input>>
    /\ UNCHANGED ConcFixed

\* lines 266-271: "if key_str == push_to_talk_key: if self.recording: ..."
StepCheckPtt ==
    /\ threads.cb.pc = "check_ptt"
    /\ threads' = Advance("cb", "check_ptt",
                          IF threads.cb.key # config.push_to_talk_key
                          THEN "idle"
                          ELSE IF recording THEN StopSteps[1]
                                            ELSE StartSteps[1])
    /\ UNCHANGED <<active, recording, listener, nListeners, recorder, last_input>>
    /\ UNCHANGED ConcFixed

\* _start_recording, line 169: "self.recording = True"
StepSetRecording ==
    /\ threads.cb.pc = "set_recording"
    /\ recording' = TRUE
    /\ threads' = Advance("cb", "set_recording",
                          Resume("cb", StartSteps, "set_recording"))
    /\ UNCHANGED <<active, listener, nListeners, recorder, last_input>>
    /\ UNCHANGED ConcFixed

\* lines 171-177: the indicator is typed
StepTypeIndicator ==
    /\ threads.cb.pc = "type_indicator"
    /\ threads' = [Advance("cb", "type_indicator",
                           Resume("cb", StartSteps, "type_indicator"))
                    EXCEPT !.indicator =
                             @ + type_indicator("ok").emitted]
    /\ UNCHANGED <<active, recording, listener, nListeners, recorder, last_input>>
    /\ UNCHANGED ConcFixed

\* lines 180-182: "self.recorder.start()", raising on a released handle
StepRecStart ==
    /\ threads.cb.pc = "rec_start"
    /\ threads' = Advance("cb", "rec_start",
                          IF recorder = "ready"
                          THEN Resume("cb", StartSteps, "rec_start")
                          ELSE StartFailedSteps[1])
    /\ UNCHANGED <<active, recording, listener, nListeners, recorder, last_input>>
    /\ UNCHANGED ConcFixed

\* line 184: "self.recording = False" after a failed start
StepUnsetRecording ==
    /\ threads.cb.pc = "unset_recording"
    /\ recording' = FALSE
    /\ threads' = Advance("cb", "unset_recording",
                          After(StartFailedSteps, "unset_recording"))
    /\ UNCHANGED <<active, listener, nListeners, recorder, last_input>>
    /\ UNCHANGED ConcFixed

\* line 186: the indicator is removed after a failed start
StepUntypeIndicator ==
    /\ threads.cb.pc = "untype_indicator"
    /\ threads' = [Advance("cb", "untype_indicator", "idle")
                    EXCEPT !.indicator =
                             @ - handle_delete_indicator("ok").emitted]
    /\ UNCHANGED <<active, recording, listener, nListeners, recorder, last_input>>
    /\ UNCHANGED ConcFixed

\* _stop_recording, line 190: "if not self.recording ...: return"
StepStopGuard(t) ==
    /\ threads[t].pc = "stop_guard"
    /\ threads' = Advance(t, "stop_guard",
                          IF ~recording THEN Return(t)
                          ELSE Resume(t, StopSteps, "stop_guard"))
    /\ UNCHANGED <<active, recording, listener, nListeners, recorder, last_input>>
    /\ UNCHANGED ConcFixed

\* line 193: "self.recording = False"
StepClearRecording(t) ==
    /\ threads[t].pc = "clear_recording"
    /\ recording' = FALSE
    /\ threads' = Advance(t, "clear_recording",
                          Resume(t, StopSteps, "clear_recording"))
    /\ UNCHANGED <<active, listener, nListeners, recorder, last_input>>
    /\ UNCHANGED ConcFixed

\* lines 195-198: the indicator is backspaced
StepBsIndicator(t) ==
    /\ threads[t].pc = "bs_indicator"
    /\ threads' = [Advance(t, "bs_indicator",
                           Resume(t, StopSteps, "bs_indicator"))
                    EXCEPT !.indicator =
                             @ - handle_delete_indicator("ok").emitted]
    /\ UNCHANGED <<active, recording, listener, nListeners, recorder, last_input>>
    /\ UNCHANGED ConcFixed

\* lines 202-205: "self.recorder.stop()", raising on a released handle, and
\* the return for escape
StepRecStop(t) ==
    /\ threads[t].pc = "rec_stop"
    /\ threads' = Advance(t, "rec_stop",
                          IF recorder # "ready" \/ threads[t].is_esc
                          THEN Return(t)
                          ELSE Resume(t, StopSteps, "rec_stop"))
    /\ UNCHANGED <<active, recording, listener, nListeners, recorder, last_input>>
    /\ UNCHANGED ConcFixed

\* line 206: "raw_text = self.recorder.text()", raising on a released handle
StepRecText(t) ==
    /\ threads[t].pc = "rec_text"
    /\ \E text \in ConcTranscripts :
         /\ recorder # "ready" => text = << >>
         /\ threads' =
              [Advance(t, "rec_text",
                       IF recorder # "ready" THEN Return(t)
                       ELSE Resume(t, StopSteps, "rec_text"))
                 EXCEPT ![t].raw = text]
    /\ UNCHANGED <<active, recording, listener, nListeners, recorder, last_input>>
    /\ UNCHANGED ConcFixed

\* lines 208-213: "if raw_text:", process_text and is_delete_command
StepClassify(t) ==
    /\ threads[t].pc = "classify"
    /\ threads' = Advance(t, "classify",
                          IF threads[t].raw = << >> THEN Return(t)
                          ELSE Resume(t, StopSteps, "classify"))
    /\ UNCHANGED <<active, recording, listener, nListeners, recorder, last_input>>
    /\ UNCHANGED ConcFixed

\* lines 213-217: _handle_delete_last for a delete-command, else
\* "self.last_input.append(raw_text)"
StepRetractOrPush(t) ==
    /\ threads[t].pc = "retract_or_push"
    /\ IF is_delete_command(process_text(threads[t].raw))
       THEN /\ last_input' = handle_delete_last(NoEffect, "ok").last_input
            /\ threads' = Advance(t, "retract", Return(t))
       ELSE /\ Len(last_input) < MaxStack
            /\ last_input' = Append(last_input, threads[t].raw)
            /\ threads' = Advance(t, "push",
                                  Resume(t, StopSteps, "retract_or_push"))
    /\ UNCHANGED <<active, recording, listener, nListeners, recorder>>
    /\ UNCHANGED ConcFixed

\* lines 218-219: "self.on_text(raw_text)"
StepOnText(t) ==
    /\ threads[t].pc = "on_text"
    /\ threads' = Advance(t, "on_text", Resume(t, StopSteps, "on_text"))
    /\ UNCHANGED <<active, recording, listener, nListeners, recorder, last_input>>
    /\ UNCHANGED ConcFixed

\* stop(), line 145: "self.active = False"; the owning process calls stop()
\* once, on a session it has started
StepClearActive ==
    /\ hookEver /\ threads.own.pc = "idle"
    /\ active' = FALSE
    /\ threads' = Advance("own", "clear_active",
                          After(StopMethodSteps, "clear_active"))
    /\ UNCHANGED <<recording, listener, nListeners, recorder, last_input>>
    /\ UNCHANGED ConcFixed

\* line 148: "self.last_input.clear()"
StepClearStack ==
    /\ threads.own.pc = "clear_stack"
    /\ last_input' = << >>
    /\ threads' = Advance("own", "clear_stack",
                          After(StopMethodSteps, "clear_stack"))
    /\ UNCHANGED <<active, recording, listener, nListeners, recorder>>
    /\ UNCHANGED ConcFixed

\* lines 151-153: "self.listener.stop(); self.listener = None"
StepStopListener ==
    /\ threads.own.pc = "stop_listener"
    /\ listener' = FALSE
    /\ nListeners' = IF listener THEN nListeners - 1 ELSE nListeners
    /\ threads' = Advance("own", "stop_listener",
                          After(StopMethodSteps, "stop_listener"))
    /\ UNCHANGED <<active, recording, recorder, last_input>>
    /\ UNCHANGED ConcFixed

\* lines 156-157: "if self.recording: self._stop_recording()"
StepCheckRecording ==
    /\ threads.own.pc = "check_recording"
    /\ threads' = Advance("own", "check_recording",
                          IF recording THEN StopSteps[1]
                          ELSE After(StopMethodSteps, "check_recording"))
    /\ UNCHANGED <<active, recording, listener, nListeners, recorder, last_input>>
    /\ UNCHANGED ConcFixed

\* lines 160-161: "self.recorder.shutdown()", after which stop() returns
StepShutdown ==
    /\ threads.own.pc = "shutdown"
    /\ recorder' = IF recorder = "ready" THEN "released" ELSE recorder
    /\ threads' = Advance("own", "shutdown", "returned")
    /\ UNCHANGED <<active, recording, listener, nListeners, last_input>>
    /\ UNCHANGED ConcFixed

NextConc ==
    \/ StartOnce \/ KeyEvent
    \/ StepCheckActive \/ StepCheckEscape \/ StepCheckPtt
    \/ StepSetRecording \/ StepTypeIndicator \/ StepRecStart
    \/ StepUnsetRecording \/ StepUntypeIndicator
    \/ \E t \in Threads : StepStopGuard(t)
    \/ \E t \in Threads : StepClearRecording(t)
    \/ \E t \in Threads : StepBsIndicator(t)
    \/ \E t \in Threads : StepRecStop(t)
    \/ \E t \in Threads : StepRecText(t)
    \/ \E t \in Threads : StepClassify(t)
    \/ \E t \in Threads : StepRetractOrPush(t)
    \/ \E t \in Threads : StepOnText(t)
    \/ StepClearActive \/ StepClearStack \/ StepStopListener
    \/ StepCheckRecording \/ StepShutdown

SpecConc == InitConc /\ [][NextConc]_vars

----------------------------------------------------------------------------
(* Types *)

TypeOK ==
    /\ config \in Configs
    /\ active \in BOOLEAN /\ recording \in BOOLEAN /\ listener \in BOOLEAN
    /\ nListeners \in 0..MaxListeners
    /\ recorder \in {"ready", "released", "absent"}
    /\ Len(last_input) <= MaxStack
    /\ \A i \in 1..Len(last_input) : last_input[i] \in Transcripts

----------------------------------------------------------------------------
(* Vocabulary of the properties *)

Range(f) == { f[i] : i \in DOMAIN f }

\* the three session states of the controller
SessionState(a, r) ==
    IF ~a /\ ~r THEN "Idle"
    ELSE IF a /\ ~r THEN "ActiveIdle"
    ELSE IF a /\ r THEN "ActiveRecording"
    ELSE "Undefined"

Sess == SessionState(active, recording)

\* the last handler was a key event carrying the PTT key / the escape key
TogglePressed == lastOp.op = "key" /\ lastOp.key = config.push_to_talk_key
EscapePressed == lastOp.op = "key" /\ lastOp.key = config.escape_key

\* the last handler called recognizer.start()
StartInvoked == "start" \in Range(lastOp.eff.rec)

\* keystrokes the last handler emitted
NoKeystrokes ==
    /\ lastOp.eff.typedInd = 0 /\ lastOp.eff.bsInd = 0
    /\ lastOp.eff.bsUtt = 0 /\ lastOp.eff.onText = << >>

----------------------------------------------------------------------------
(* Properties *)

\* C1: at most one recording is in flight.  A key event calls
\* recognizer.start() only when the recording flag is false on entry, and
\* the number of recognizer starts not yet matched by an end of recording
\* (toggle-stop, cancel, stop(), start failure) is always 0 or 1.
C1_AtMostOneRecording ==
    /\ [](inFlight \in {0, 1})
    /\ [][StartInvoked' => ~recording]_vars

\* a second recording is in flight after an earlier one was injected
C1_Witness ==
    /\ inFlight = 1 /\ recording
    /\ lastOp.branch = "toggle_start" /\ lastOp.eff.rec = <<"start">>
    /\ last_input # << >>

\* C2: the session moves only Idle -start-> ActiveIdle -toggle->
\* ActiveRecording -toggle/cancel-> ActiveIdle; a toggle in ActiveIdle stays
\* in ActiveIdle only when recognizer.start() failed; stop() ends in Idle
\* from every state; no other change of state occurs.
C2_Transitions ==
    [][ /\ Sess' # "Undefined"
        /\ (lastOp'.op = "stop" => Sess' = "Idle")
        /\ (lastOp'.op = "start" /\ Sess = "Idle" => Sess' = "ActiveIdle")
        /\ (TogglePressed' /\ Sess = "ActiveIdle" =>
               \/ Sess' = "ActiveRecording"
               \/ Sess' = "ActiveIdle" /\ lastOp'.eff.recErr = "start")
        /\ (TogglePressed' /\ Sess = "ActiveRecording" => Sess' = "ActiveIdle")
        /\ (Sess' # Sess =>
               \/ lastOp'.op = "stop" /\ Sess' = "Idle"
               \/ lastOp'.op = "start" /\ Sess = "Idle" /\ Sess' = "ActiveIdle"
               \/ TogglePressed' /\ Sess = "ActiveIdle" /\ Sess' = "ActiveRecording"
               \/ (TogglePressed' \/ EscapePressed')
                    /\ Sess = "ActiveRecording" /\ Sess' = "ActiveIdle")
      ]_vars

\* stop() called during a recording has returned and the session is Idle
C2_Witness ==
    /\ lastOp.op = "stop" /\ lastOp.eff.rec # << >> /\ ~lastOp.eff.raised
    /\ Sess = "Idle"

\* C3: the undo stack holds as many entries as utterances were typed into
\* the target since the last stop() minus those retracted since; an
\* utterance whose injection failed is not on the stack.
C3_StackSizeIsNetInjected ==
    Len(last_input) = netInjected

\* C4: whenever stop() has returned, the undo stack is empty.
C4_StopLeavesStackEmpty ==
    lastOp.op = "stop" /\ ~lastOp.eff.raised => last_input = << >>

\* C5: stop() during a recording calls recognizer.stop() but does not fetch
\* or classify the transcript, does not call on_text, emits no retraction
\* keystrokes and pushes or pops nothing.
C5_StopDoesNotInject ==
    lastOp.op = "stop" /\ lastOp.eff.rec # << >> =>
        /\ lastOp.eff.rec = <<"stop">>
        /\ ~lastOp.eff.classified
        /\ lastOp.eff.onText = << >>
        /\ lastOp.eff.bsUtt = 0
        /\ last_input = << >>

\* C6: a stop() that follows a stop() (or the constructor) raises nothing,
\* emits no keystrokes, calls no recognizer start/stop/text and leaves
\* active, recording, the undo stack and the listener as they were.
C6_StopIdempotent ==
    [][ lastOp.op \in {"init", "stop"} /\ lastOp'.op = "stop" =>
          /\ ~lastOp'.eff.raised
          /\ NoKeystrokes'
          /\ lastOp'.eff.rec = << >>
          /\ active' = active /\ recording' = recording
          /\ last_input' = last_input
          /\ listener' = listener /\ nListeners' = nListeners
      ]_vars

C8_RecognizerErrorCaught ==
    lastOp.op = "key" /\ lastOp.eff.recErr # "none" =>
        /\ active /\ ~recording
        /\ (lastOp.eff.raised => lastOp.eff.kbErr)

\* recognizer.text() raised in a toggle-stop
C8_Witness ==
    /\ lastOp.branch = "toggle_stop" /\ lastOp.eff.recErr = "text"
    /\ ~lastOp.eff.raised

\* C9: a key event in which keystroke injection failed (typing or
\* backspacing the indicator, on_text) ends with recording = false.
C9_InjectionFailureEndsIdle ==
    /\ lastOp.op = "key"
    /\ \/ lastOp.eff.kbErr
       \/ lastOp.eff.onText # << >> /\ ~lastOp.eff.injected
    => ~recording

\* C10: recognizer.start() failing in a toggle-start (pyautogui raising
\* nothing) is rolled back: as many backspaces as indicator characters
\* typed, recording false, undo stack unchanged, no recognizer stop()/text(),
\* and the next PTT press starts a recording.
C10_StartFailureRolledBack ==
    [][ /\ lastOp'.branch = "toggle_start"
        /\ lastOp'.eff.recErr = "start"
        /\ ~lastOp'.eff.kbErr
        =>
        /\ lastOp'.eff.typedInd = Len(config.recording_indicator)
        /\ lastOp'.eff.bsInd = lastOp'.eff.typedInd
        /\ ~recording'
        /\ last_input' = last_input
        /\ lastOp'.eff.rec = <<"start">>
        /\ lastOp'.eff.onText = << >> /\ lastOp'.eff.bsUtt = 0
        /\ Dispatch(K_F9)' = "toggle_start"
      ]_vars

\* a failed start was rolled back over a two-character indicator, with an
\* utterance on the undo stack
C10_Witness ==
    /\ lastOp.branch = "toggle_start" /\ lastOp.eff.recErr = "start"
    /\ ~lastOp.eff.kbErr
    /\ lastOp.eff.typedInd = 2 /\ lastOp.eff.bsInd = 2
    /\ last_input # << >>

\* C11: a toggle-stop in which recognizer.stop() or recognizer.text()
\* raises injects nothing (on_text not called, no backspace for an
\* utterance) and leaves the undo stack as it was, whatever transcript the
\* recognizer holds.
C11_TranscriptionErrorInjectsNothing ==
    [][ /\ lastOp'.branch = "toggle_stop"
        /\ lastOp'.eff.recErr \in {"stop", "text"}
        =>
        /\ lastOp'.eff.onText = << >>
        /\ lastOp'.eff.typedText = 0
        /\ lastOp'.eff.bsUtt = 0
        /\ last_input' = last_input
      ]_vars

\* recognizer.stop() raised in a toggle-stop while the recognizer held an
\* ordinary transcript and the undo stack held an utterance
C11_Witness ==
    /\ lastOp.branch = "toggle_stop" /\ lastOp.eff.recErr = "stop"
    /\ lastOp.heard = <<"h", "i">>
    /\ last_input # << >>

\* C12: a transcript classified as a delete-command is never stored and
\* never sent: no entry of the undo stack, and no argument on_text was
\* called with, is a text that is_delete_command(process_text(.)) accepts
\* under the session's configuration.
C12_DeleteCommandNeverStored ==
    /\ \A i \in DOMAIN last_input :
          ~is_delete_command(process_text(last_input[i]))
    /\ \A i \in DOMAIN lastOp.eff.onText :
          ~is_delete_command(process_text(lastOp.eff.onText[i]))

\* a delete-command was heard and classified while keywords are configured,
\* and an utterance is still on the undo stack
C12_Witness ==
    /\ lastOp.branch = "toggle_stop" /\ lastOp.eff.classified
    /\ is_delete_command(process_text(lastOp.heard))
    /\ lastOp.eff.onText = << >>
    /\ last_input # << >>

\* the last handler was a toggle-stop that fetched a non-empty transcript
\* which is not a delete-command
OrdinaryTranscriptFetched ==
    /\ lastOp.branch = "toggle_stop"
    /\ lastOp.eff.rec = <<"stop", "text">> /\ lastOp.eff.recErr = "none"
    /\ lastOp.heard # << >>
    /\ ~is_delete_command(process_text(lastOp.heard))

DeleteCommandReceived ==
    /\ lastOp.branch = "toggle_stop"
    /\ lastOp.heard # << >>
    /\ lastOp.eff.recErr = "none" /\ lastOp.eff.rec = <<"stop", "text">>
    /\ is_delete_command(process_text(lastOp.heard))

\* a key event calls _handle_delete_last exactly when the transcript it
\* fetched is a delete-command
RetractIffDeleteCommand ==
    lastOp.op = "key" => (lastOp.eff.retract <=> DeleteCommandReceived)

\* press requests of the last handler beyond those for the indicator
RetractionPresses ==
    lastOp.eff.presses -
        handle_delete(Len(config.recording_indicator), "ok").presses

\* C14: a delete-command that retracts utterance T (pyautogui raising
\* nothing) emits len(T)+1 backspaces under the batch and under the
\* sequential strategy; the strategies differ only in the press requests
\* made (one for the whole run, or one per character).
C14_RetractionCountBothStrategies ==
    /\ []RetractIffDeleteCommand
    /\ [][ /\ lastOp'.op = "key" /\ lastOp'.eff.retract
           /\ last_input # << >> /\ ~lastOp'.eff.kbErr
           =>
           LET T == last_input[Len(last_input)]
               batch == handle_delete_by(TRUE, Len(T) + 1, "ok")
               sequential == handle_delete_by(FALSE, Len(T) + 1, "ok")
           IN  /\ lastOp'.eff.bsUtt = Len(T) + 1
               /\ batch.emitted = Len(T) + 1
               /\ sequential.emitted = batch.emitted
               /\ sequential.raised = batch.raised
               /\ batch.presses = 1 /\ sequential.presses = Len(T) + 1
               /\ RetractionPresses' =
                     IF config.fast_delete THEN 1 ELSE Len(T) + 1
               /\ last_input' = SubSeq(last_input, 1, Len(last_input) - 1)
               /\ ~recording' /\ active' = active
         ]_vars

\* a three-character utterance retracted by one batch request
C14_WitnessBatch ==
    /\ DeleteCommandReceived /\ config.fast_delete /\ ~lastOp.eff.kbErr
    /\ lastOp.eff.bsUtt = 4 /\ RetractionPresses = 1

\* a three-character utterance retracted by four sequential presses
C14_Witness ==
    /\ DeleteCommandReceived /\ ~config.fast_delete /\ ~lastOp.eff.kbErr
    /\ lastOp.eff.bsUtt = 4 /\ RetractionPresses = 4

\* C15: a delete-command received while the undo stack is empty emits no
\* retraction backspace and makes no press request for one, raises nothing,
\* and leaves the undo stack empty and the session in ActiveIdle.
C15_DeleteOnEmptyStackNoOp ==
    /\ []RetractIffDeleteCommand
    /\ [][ lastOp'.op = "key" /\ lastOp'.eff.retract /\ last_input = << >>
           =>
           /\ lastOp'.eff.bsUtt = 0
           /\ RetractionPresses' = 0
           /\ ~lastOp'.eff.raised /\ ~lastOp'.eff.kbErr
           /\ lastOp'.eff.onText = << >>
           /\ last_input' = << >>
           /\ SessionState(active', recording') = "ActiveIdle"
         ]_vars

\* a delete-command was classified and nothing was there to retract
C15_Witness ==
    /\ DeleteCommandReceived /\ lastOp.eff.classified
    /\ last_input = << >> /\ netInjected = 0
    /\ lastOp.eff.bsUtt = 0 /\ lastOp.eff.bsInd = 2 /\ ~lastOp.eff.kbErr

\* C16: typing an utterance T and then retracting it is a round trip
\* (pyautogui raising nothing): on_text types len(T) characters and one
\* trailing blank and T is appended to the undo stack; a delete-command
\* with T on top emits as many backspaces as were typed for T, len(T)+1,
\* and removes exactly that entry.
C16_InjectDeleteRoundTrip ==
    /\ []RetractIffDeleteCommand
    /\ [][ lastOp'.op = "key" =>
           /\ lastOp'.eff.injected
              =>
              /\ lastOp'.eff.typedText = Len(lastOp'.heard) + 1
              /\ last_input' = Append(last_input, lastOp'.heard)
           /\ lastOp'.eff.retract /\ last_input # << >> /\ ~lastOp'.eff.kbErr
              =>
              LET T == last_input[Len(last_input)] IN
              /\ lastOp'.eff.bsUtt = handle_type(T, "typed")
              /\ lastOp'.eff.bsUtt = Len(T) + 1
              /\ Append(last_input', T) = last_input
         ]_vars

\* "hi", typed as three characters, was retracted by three backspaces and
\* the undo stack is empty again
C16_Witness ==
    /\ DeleteCommandReceived /\ ~lastOp.eff.kbErr
    /\ lastOp.eff.bsUtt = 3
    /\ last_input = << >> /\ netInjected = 0

C18_RetractionIsLifo ==
    /\ []RetractIffDeleteCommand
    /\ [][ lastOp'.op = "key" =>
           IF lastOp'.eff.retract
           THEN IF last_input = << >>
                THEN lastOp'.eff.bsUtt = 0 /\ last_input' = << >>
                ELSE /\ last_input' =
                           SubSeq(last_input, 1, Len(last_input) - 1)
                     /\ \A i \in DOMAIN last_input' :
                           last_input'[i] = last_input[i]
                     /\ ~lastOp'.eff.kbErr =>
                           lastOp'.eff.bsUtt =
                               Len(last_input[Len(last_input)]) + 1
           ELSE \/ last_input' = last_input
                \/ /\ last_input' = Append(last_input, lastOp'.heard)
                   /\ lastOp'.eff.onText = <<lastOp'.heard>>
         ]_vars

\* of the utterances "hi" and " a ", injected in that order, the second
\* was retracted by four backspaces and the first is left
C18_Witness ==
    /\ DeleteCommandReceived /\ ~lastOp.eff.kbErr
    /\ lastOp.eff.bsUtt = 4
    /\ last_input = << <<"h", "i">> >>
    /\ netInjected = 1

\* C19: for every recording, the indicator characters typed when it began
\* equal the backspaces emitted for the indicator when it ends.  Stated for
\* a recording ended by the key event after the one that began it, or
\* rolled back by the toggle-start itself, the backspacing raising nothing.
C19_IndicatorSymmetry ==
    [][ /\ lastOp.branch = "toggle_start" /\ recording
           /\ lastOp'.op = "key" /\ ~recording' /\ ~lastOp'.eff.kbErr
           => lastOp'.eff.bsInd = lastOp.eff.typedInd
        /\ lastOp'.branch = "toggle_start" /\ lastOp'.eff.recErr = "start"
           /\ ~lastOp'.eff.kbErr
           => lastOp'.eff.bsInd = lastOp'.eff.typedInd
      ]_vars

\* a and b are the same text up to the case of their letters
SameIgnoringCase(a, b) ==
    /\ Len(a) = Len(b)
    /\ \A i \in 1..Len(a) : LowerChar(a[i]) = LowerChar(b[i])

\* characters i+1..j of t are t without the whitespace around it
TrimsTo(t, i, j) ==
    /\ i <= j
    /\ \A n \in 1..Len(t) : (n <= i \/ n > j) => t[n] \in Whitespace
    /\ i < j => (t[i + 1] \notin Whitespace /\ t[j] \notin Whitespace)

\* m without one trailing period
WithoutTrailingPeriod(m) ==
    IF m # << >> /\ m[Len(m)] = "." THEN SubSeq(m, 1, Len(m) - 1) ELSE m

\* the keywords in force: none when the feature is disabled
ConfiguredKeywords ==
    IF config.delete_keywords.isList
    THEN Range(config.delete_keywords.list) ELSE {}

\* the claim's reading of a delete-command: trimmed, one trailing period
\* removed, the text is a configured keyword up to case
MatchesKeywordExactly(t) ==
    \E i \in 0..Len(t), j \in 0..Len(t) :
        /\ TrimsTo(t, i, j)
        /\ \E k \in ConfiguredKeywords :
              SameIgnoringCase(WithoutTrailingPeriod(SubSeq(t, i + 1, j)), k)

\* C20: is_delete_command(text) is true exactly when the text, lowercased,
\* trimmed and with one trailing period removed, equals a configured
\* keyword up to case; a text that contains, starts with or extends a
\* keyword ("d!", "d e" for keyword "d") is not a delete-command.
C20_DeleteCommandExactMatch ==
    res # << >> /\ res[1] = "is_delete_command" =>
        /\ res[2] = MatchesKeywordExactly(arg)
        /\ arg \in { <<"d", "!">>, <<"d", " ", "e">>, <<"d", "d">>,
                     <<"e", "d">>, <<"d", ".", ".">>, <<"d", " ", ".">> }
              => res[2] = FALSE

\* "D. " with a trailing blank was classified as a delete-command
C20_Witness ==
    /\ arg = <<"D", ".", " ">> /\ res = <<"is_delete_command", TRUE>>
    /\ config.delete_keywords.isList

\* "d!" was classified as ordinary text while "d" is a keyword
C20_WitnessNoMatch ==
    /\ arg = <<"d", "!">> /\ res = <<"is_delete_command", FALSE>>
    /\ config.delete_keywords.isList

\* C21: with the delete-keyword feature disabled (delete_keywords false or
\* empty) no transcript is a delete-command, no handler reaches
\* _handle_delete_last or emits a retraction backspace, no key event
\* shortens the undo stack, and a toggle-stop that fetched a non-empty
\* transcript, keyword text included, stores it and sends it to on_text.
C21_DisabledDeleteNeverRetracts ==
    /\ [](DkFalsy(config.delete_keywords) =>
            /\ \A t \in Transcripts : ~is_delete_command(process_text(t))
            /\ ~lastOp.eff.retract /\ lastOp.eff.bsUtt = 0
            /\ /\ lastOp.branch = "toggle_stop"
               /\ lastOp.eff.rec = <<"stop", "text">>
               /\ lastOp.eff.recErr = "none"
               /\ lastOp.heard # << >>
               =>
               /\ lastOp.eff.onText = <<lastOp.heard>>
               /\ last_input # << >>
               /\ last_input[Len(last_input)] = lastOp.heard)
    /\ [][ DkFalsy(config.delete_keywords) /\ lastOp'.op = "key"
           => Len(last_input') >= Len(last_input) ]_vars

\* with the feature disabled, the keyword text " D." was stored and sent
C21_Witness ==
    /\ ~config.delete_keywords.isList /\ ~config.delete_keywords.flag
    /\ lastOp.branch = "toggle_stop"
    /\ lastOp.heard = <<" ", "D", ".">>
    /\ lastOp.eff.onText = << <<" ", "D", ".">> >>
    /\ last_input = << <<"h", "i">>, <<" ", "D", ".">> >>

\* C23: over any number of stop() calls the recognizer handle's shutdown()
\* is invoked at most once (only by a stop() that finds the handle, which
\* is released by it for good), and an error it raises does not leave
\* stop().
C23_ShutdownAtMostOnce ==
    /\ [][ lastOp'.shutdown =>
             /\ lastOp'.op = "stop"
             /\ recorder = "ready" /\ recorder' = "released" ]_vars
    /\ [][ recorder = "released" => recorder' = "released" ]_vars
    /\ [](lastOp.eff.shutErr =>
             /\ lastOp.shutdown /\ ~lastOp.eff.raised
             /\ recorder = "released" /\ ~active /\ ~listener)

\* a stop() that found the handle released and invoked nothing
C23_Witness ==
    /\ lastOp.op = "stop" /\ ~lastOp.shutdown /\ ~lastOp.eff.raised
    /\ recorder = "released"

\* a stop() in which the handle's shutdown() raised
C23_WitnessError ==
    /\ lastOp.op = "stop" /\ lastOp.eff.shutErr /\ ~lastOp.eff.raised

\* C24: when constructing the recognizer failed, no session ever starts:
\* no listener is created, active and recording stay false, no key event
\* is handled, and nothing is typed, backspaced or asked of a recognizer;
\* the only handler that runs is the finalizer's stop().
C24_InitFailureNoSession ==
    recorder = "absent" =>
        /\ ~active /\ ~recording /\ ~listener
        /\ ~hookEver /\ nListeners = 0
        /\ last_input = << >>
        /\ lastOp.op \in {"init", "stop"}
        /\ NoKeystrokes
        /\ lastOp.eff.rec = << >> /\ ~lastOp.shutdown /\ ~lastOp.eff.raised

\* the finalizer ran stop() on the instance whose construction failed
C24_Witness ==
    recorder = "absent" /\ lastOp.op = "stop"

\* C25: after stop(), start() gives a working session again: a PTT press
\* in it (pyautogui raising nothing) starts a recording, recognizer.start()
\* succeeding.  The recognizer handle is released only by stop(), and the
\* toggle is dispatched only in a session start() made active again.
C25_RestartedSessionRecords ==
    /\ recorder = "released"
    /\ lastOp.branch = "toggle_start" /\ ~lastOp.eff.kbErr
    =>
    /\ lastOp.eff.rec = <<"start">> /\ lastOp.eff.recErr = "none"
    /\ recording /\ Sess = "ActiveRecording"

\* the key of the key event just handled is not one that acts: it is neither
\* configured id, or it is the escape key, distinct from the PTT key, pressed
\* while nothing was being recorded
UnboundKeyPressed ==
    /\ lastOp'.op = "key"
    /\ \/ lastOp'.key \notin {config.push_to_talk_key, config.escape_key}
       \/ /\ lastOp'.key = config.escape_key
          /\ lastOp'.key # config.push_to_talk_key
          /\ ~recording

\* C26: only the configured key ids trigger actions.  A key event that
\* toggles carries the PTT key id and one that cancels carries the escape key
\* id; a key-down event whose id is neither of them, or is the escape key
\* (distinct from the PTT key) while not recording, changes no session
\* state, emits no keystroke and makes no recognizer call.
C26_OnlyConfiguredKeysAct ==
    /\ [](lastOp.branch \in {"toggle_start", "toggle_stop"}
             => lastOp.op = "key" /\ lastOp.key = config.push_to_talk_key)
    /\ [](lastOp.branch = "cancel"
             => lastOp.op = "key" /\ lastOp.key = config.escape_key)
    /\ [][ UnboundKeyPressed =>
             /\ lastOp'.branch = "ignored"
             /\ UNCHANGED <<active, recording, listener, nListeners, recorder,
                            last_input, inFlight, netInjected>>
             /\ NoKeystrokes'
             /\ lastOp'.eff.rec = << >> /\ ~lastOp'.shutdown ]_vars

\* another key is pressed while a recording is in progress
C26_Witness ==
    /\ lastOp.op = "key" /\ lastOp.key = "a" /\ lastOp.branch = "ignored"
    /\ active /\ recording

\* the escape key, distinct from the PTT key, is pressed while idle
C26_WitnessEscapeIdle ==
    /\ lastOp.op = "key" /\ lastOp.key = "esc" /\ lastOp.branch = "ignored"
    /\ config.escape_key = "esc" /\ active /\ ~recording

\* setup stored the id of the captured key in the option res[1]
KeyStored == res # << >> /\ res[2] \notin {NoKey, ""}

C27_WitnessRawCode ==
    /\ KeyStored /\ arg = K_VK /\ res[1] = "escape_key"
    /\ lastOp.op = "key" /\ lastOp.key = res[2] /\ lastOp.branch = "cancel"

\* C28: process_text returns its input without the whitespace around it
\* when config.strip is on and returns it unchanged when config.strip is
\* off, the empty string included.
C28_ProcessTextTrimsOrIdentity ==
    res # << >> /\ res[1] = "process_text" =>
        /\ config.strip =>
             \E i \in 0..Len(arg), j \in 0..Len(arg) :
                 TrimsTo(arg, i, j) /\ res[2] = SubSeq(arg, i + 1, j)
        /\ ~config.strip => res[2] = arg
        /\ arg = << >> => res[2] = << >>

\* " d " was trimmed to "d"
C28_Witness ==
    /\ config.strip
    /\ arg = <<" ", "d", " ">> /\ res = <<"process_text", <<"d">> >>

\* " d " was returned as it is with config.strip off
C28_WitnessIdentity ==
    /\ ~config.strip
    /\ arg = <<" ", "d", " ">> /\ res = <<"process_text", arg>>

\* a text of blanks was trimmed to the empty string
C28_WitnessBlank ==
    /\ config.strip
    /\ arg = <<" ", " ">> /\ res = <<"process_text", << >> >>

\* the session is being used through the hook: the listener is registered
\* or a callback is still running
CallbackMayRun == listener \/ threads.cb.pc # "idle"

\* C22: every mutation of the recording flag and of the undo stack happens
\* on the hook's callback thread: while a hotkey callback may be running, a
\* statement that changes self.recording or self.last_input is executed by
\* the callback thread, never by the thread of the owning process in stop().
C22_MutationOnCallbackThreadOnly ==
    [][ CallbackMayRun /\ (recording' # recording \/ last_input' # last_input)
          => threads'.last.by = "cb" ]_vars

\* in log, every occurrence of b comes after an occurrence of a
Precedes(log, a, b) ==
    \A j \in 1..Len(log) :
        log[j] = b => \E i \in 1..(j - 1) : log[i] = a

\* the statements one handler has run so far are in the claimed order
InClaimedOrder(log) ==
    /\ Precedes(log, "clear_recording", "bs_indicator")
    /\ Precedes(log, "bs_indicator", "rec_stop")
    /\ Precedes(log, "rec_stop", "rec_text")
    /\ Precedes(log, "rec_text", "classify")
    /\ Precedes(log, "classify", "retract")
    /\ Precedes(log, "classify", "push")
    /\ Precedes(log, "push", "on_text")
    /\ Precedes(log, "bs_indicator", "retract")
    /\ Precedes(log, "bs_indicator", "on_text")
    /\ Precedes(log, "type_indicator", "rec_start")

\* C29: within one toggle-stop the recording flag is cleared, then the
\* indicator is backspaced, then recognizer.stop() is called, then
\* recognizer.text() is fetched, then the transcript is classified, and only
\* then is the utterance retracted or pushed and passed to on_text; no
\* retraction or injection precedes the removal of the indicator; within one
\* toggle-start the indicator is typed before recognizer.start() is called.
\* Stated for the handler of every key event and for the _stop_recording
\* that stop() runs.
C29_HandlerStepOrder ==
    \A t \in Threads : InClaimedOrder(threads[t].log)

\* a toggle-stop ran to its end and passed an utterance to on_text
C29_Witness ==
    /\ threads.cb.pc = "idle" /\ threads.cb.key = config.push_to_talk_key
    /\ Len(threads.cb.log) = 3 + Len(StopSteps)
    /\ threads.cb.log[Len(threads.cb.log)] = "on_text"

\* the fourth key event was a toggle-stop that ran to its end on the
\* retraction branch
C29_WitnessRetract ==
    /\ threads.last = [by |-> "cb", step |-> "retract"]
    /\ Len(last_input) = 0 /\ threads.own.pc = "idle"
    /\ threads.events = 4

\* a toggle-start ran to its end
C29_WitnessStart ==
    /\ threads.last = [by |-> "cb", step |-> "rec_start"]
    /\ threads.cb.pc = "idle" /\ recording

\* C30: stop() may run concurrently with a hotkey callback: in every
\* interleaving, once stop() has returned and the callback has finished the
\* session is Idle with recording false and an empty undo stack, and on_text
\* is not invoked after stop() has returned.
C30_StopSafeUnderInterleaving ==
    /\ threads.own.pc = "returned" /\ threads.cb.pc = "idle" =>
         /\ Sess = "Idle" /\ ~recording
         /\ last_input = << >>
    /\ threads.own.pc = "returned" => threads.last.step # "on_text"

\* C31: at every point of every execution, interleavings of stop() with a
\* callback inside its settle delay included, the backspaces emitted to
\* remove indicators never exceed the indicator characters typed so far: an
\* indicator is never backspaced before it was typed.
C31_IndicatorNeverOverErased ==
    threads.indicator >= 0

\* the handler just run called recognizer.stop() or recognizer.text()
StopOrTextInvoked ==
    "stop" \in Range(lastOp.eff.rec) \/ "text" \in Range(lastOp.eff.rec)

\* C32: recognizer.stop() and recognizer.text() are invoked only for a
\* recording whose recognizer.start() completed successfully: a handler that
\* calls them starts with a successful recognizer.start() not yet matched by
\* an end of recording.
C32_StopOnlyAfterSuccessfulStart ==
    [][ StopOrTextInvoked' => inFlight >= 1 ]_vars

\* C33: once stop() has released the recognizer (shutdown called), the
\* controller never again invokes recognizer.start(), stop() or text() on
\* it, neither for a later key event nor in a callback that was in flight
\* when stop() ran.  (No statement that calls the recognizer changes the
\* handle, so the handle a call found is the one in the state after it.)
C33_NoRecognizerCallAfterRelease ==
    recorder = "released" =>
        threads.last.step \notin {"rec_start", "rec_stop", "rec_text"}

\* C34: at most one keyboard hook is registered per controller at any time,
\* start() on an active session included, and stop() leaves no listener
\* registered.
C34_AtMostOneListener ==
    /\ nListeners <= 1
    /\ lastOp.op = "stop" => nListeners = 0

\* C35: a key event delivered while the session is not active (after stop()
\* set active = false; before start() there is no listener to deliver one)
\* is ignored whichever key it carries: it changes neither the recording
\* flag nor the undo stack nor any other field, emits no keystroke and makes
\* no recognizer call.
C35_KeysIgnoredWhileIdle ==
    [][ lastOp'.op = "key" /\ ~active =>
          /\ lastOp'.branch = "ignored"
          /\ UNCHANGED <<active, recording, listener, nListeners, recorder,
                         last_input, inFlight, netInjected>>
          /\ NoKeystrokes'
          /\ lastOp'.eff.rec = << >> /\ ~lastOp'.shutdown ]_vars

\* the PTT key was pressed after stop() and ignored
C35_Witness ==
    /\ lastOp.op = "key" /\ lastOp.key = config.push_to_talk_key
    /\ lastOp.branch = "ignored"
    /\ Sess = "Idle" /\ recorder = "released"

\* C36: cancel takes precedence over toggle: while recording, a key whose id
\* is the escape key is handled as cancel even if it is the PTT key too; so
\* with escape key = PTT key no handler takes the toggle-stop branch and no
\* transcript is ever fetched, pushed or passed to on_text.
C36_CancelTakesPrecedence ==
    /\ [][ /\ lastOp'.op = "key" /\ active /\ recording
           /\ lastOp'.key = config.escape_key
           => lastOp'.branch = "cancel" ]_vars
    /\ [](config.escape_key = config.push_to_talk_key =>
            /\ lastOp.branch # "toggle_stop"
            /\ "text" \notin Range(lastOp.eff.rec)
            /\ lastOp.eff.onText = << >>
            /\ last_input = << >>)


C37_WitnessStored ==
    /\ Len(res) = 4 /\ res[1] = "transcript"
    /\ arg = <<" ", "e", " ">> /\ res[2] # << >>
    /\ ~res[3].delete /\ ~res[4].delete
    /\ res[3].eff.onText = << <<" ", "e", " ">> >>
    /\ res[4].eff.last_input = << <<"h", "i">>, <<" ", "e", " ">> >>

====
